---- MODULE Spec2Model ----
(***************************************************************************)
(* The App state controller (App.tsx) and the Gemini service client        *)
(* (services/geminiService.ts) as a state machine.                         *)
(*                                                                         *)
(* A handler runs synchronously up to its next `await`; each such segment  *)
(* is one atomic step (single UI event loop).  A handler reads the React   *)
(* state through the closure of the render it was created in, so the       *)
(* values it captured at invocation are kept in its task record.           *)
(* A remote call is three steps: the request is dispatched by the handler, *)
(* the service processes it (Remote), the reply resumes the handler.       *)
(*                                                                         *)
(* A resource name such as "corpora/a" is the sequence of its path         *)
(* segments <<"corpora", "a">>; a message is the sequence of its parts.    *)
(***************************************************************************)
EXTENDS Integers, Sequences, FiniteSets, TLC

\* ------------------------------------------------------------------ bounds
MaxTasks == 2
MaxFiles == 1
MaxOps == 3
PageSize == 2

\* ------------------------------------------------------------- basic values
NULL == <<>>
Some(x) == <<x>>

StoreSegs == {"a", "b", "c"}
CorpusName(seg) == <<"corpora", seg>>
FileNames == {"f.txt"}
Metadatas == {<<[key |-> "k", stringValue |-> "v"]>>}
DisplayNames == {"Notes"}
Queries == {"q"}

Last(s) == s[Len(s)]

\* a || b || c on strings: the first non-empty one
FirstNonEmpty(a, b, c) == IF a # "" THEN a ELSE IF b # "" THEN b ELSE c

MsgApiKey == "API_KEY environment variable not set."
MsgNotInit == "Gemini AI not initialized"
MsgNoName == "Failed to create RAG store: name is missing."
MsgNoUri == "File upload did not return a valid file resource with a URI."
MsgService == "ServiceError"

\* ------------------------------------------------------------------- state
VARIABLES
    stores, selectedStore, documents, queryResult,
    isLoadingStores, isLoadingDocuments, isQuerying,
    processingFile, error, initialized,
    ai,          \* geminiService's module-level client handle is set
    apiKey,      \* process.env.API_KEY is present
    mounted,     \* the mount effect has run
    corpora,     \* the service: its corpora, in listing order
    rdocs,       \* the service: its documents, in listing order
    nextFile,    \* the service: number of file resources created
    tasks,       \* the handler invocations in flight
    ops,         \* number of user operations started so far
    returned     \* the handler that last returned without awaiting: an early
                 \* return of a handler, or clearError ("" when none has)

react == <<stores, selectedStore, documents, queryResult, isLoadingStores,
           isLoadingDocuments, isQuerying, processingFile, error, initialized>>
remote == <<corpora, rdocs, nextFile>>
vars == <<react, ai, apiKey, mounted, remote, tasks, ops, returned>>

Slots == 1..MaxTasks

Idle == [kind |-> "idle", pc |-> "", phase |-> "", sel |-> NULL, store |-> NULL,
         doc |-> NULL, text |-> "", meta |-> <<>>, calls |-> <<>>,
         ok |-> FALSE, val |-> <<>>, next |-> ""]

FreeSlots == {t \in Slots : tasks[t].kind = "idle"}
NewSlot == CHOOSE t \in FreeSlots : \A u \in FreeSlots : t <= u

\* the task after it dispatched the request `pc`
Call(task, pc) == [task EXCEPT !.pc = pc, !.phase = "req",
                               !.calls = Append(task.calls, pc),
                               !.ok = FALSE, !.val = <<>>, !.next = ""]

Awaiting(t, kind, pc) == /\ tasks[t].kind = kind
                         /\ tasks[t].pc = pc
                         /\ tasks[t].phase = "resp"

\* err.message of the rejection a failed reply carries
ErrMsg(task) == task.val[1]

Parent(docName) == SubSeq(docName, 1, 2)

InitCorpora ==
    { <<>>,
      << [name |-> CorpusName("a"), displayName |-> ""],
         [name |-> CorpusName("b"), displayName |-> "Lib"] >> }

InitDocs(cs) ==
    IF cs = <<>> THEN <<>>
    ELSE << [name |-> CorpusName("a") \o <<"documents", "x">>,
             displayName |-> "", customMetadata |-> <<>>],
            [name |-> CorpusName("b") \o <<"documents", "y">>,
             displayName |-> "y.txt", customMetadata |-> <<>>] >>

Init ==
    /\ stores = <<>>
    /\ selectedStore = NULL
    /\ documents = <<>>
    /\ queryResult = NULL
    /\ isLoadingStores = FALSE
    /\ isLoadingDocuments = FALSE
    /\ isQuerying = FALSE
    /\ processingFile = NULL
    /\ error = NULL
    /\ initialized = FALSE
    /\ ai = FALSE
    /\ apiKey \in BOOLEAN
    /\ mounted = FALSE
    /\ corpora \in InitCorpora
    /\ rdocs = InitDocs(corpora)
    /\ nextFile = 0
    /\ tasks = [t \in Slots |-> Idle]
    /\ ops = 0
    /\ returned = ""

\* ------------------------------------------------------------ App helpers
\* `${message}${errorMessage ? `: ${errorMessage}` : ''}`
handleError(message, errMsg) ==
    Some(IF errMsg # "" THEN message \o <<": ", errMsg>> ELSE message)

\* renderContent: which view is shown
ErrorView == error # NULL
MainView == error = NULL /\ initialized


\* initialize() without the check of process.env.API_KEY
initialize_unchecked == [threw |-> FALSE, msg |-> "", ai |-> TRUE]

\* ------------------------------------------------------- geminiService
\* initialize(): the value of `ai` afterwards, or the error thrown
initialize ==
    IF ~apiKey THEN [threw |-> TRUE, msg |-> MsgApiKey, ai |-> ai]
    ELSE [threw |-> FALSE, msg |-> "", ai |-> TRUE]


\* listRagStores losing the last corpus of the listing
ToStores_dropsLast(cs) ==
    [i \in 1..(Len(cs) - 1) |->
        [name |-> cs[i].name,
         displayName |-> FirstNonEmpty(cs[i].displayName, Last(cs[i].name), "")]]

\* the client operations without their guard
NotInitialized_unchecked == FALSE

\* if (!ai) throw new Error("Gemini AI not initialized")
NotInitialized == ~ai

\* corpora.map(...) of listRagStores
ToStores(cs) ==
    [i \in 1..Len(cs) |->
        [name |-> cs[i].name,
         displayName |-> FirstNonEmpty(cs[i].displayName, Last(cs[i].name), "")]]

\* files.map(...) of listDocuments
ToDocuments(fs) ==
    [i \in 1..Len(fs) |->
        [name |-> fs[i].name,
         displayName |-> FirstNonEmpty(fs[i].displayName, Last(fs[i].name), ""),
         customMetadata |-> fs[i].customMetadata]]

\* ---------------------------------------------------------------- loadStores
MsgLoad == <<"Failed to load RAG stores. Please ensure your API key is valid and has permissions.">>

\* loadStores up to its await, run by the task in slot t (a fresh record
\* `task` when it is called directly, the caller's when it is awaited).
\* Writes isLoadingStores, error, ai and tasks.
loadStores(t, task) ==
    LET i == initialize IN
    IF i.threw
    THEN /\ error' = handleError(MsgLoad, i.msg)
         /\ isLoadingStores' = FALSE
         /\ ai' = i.ai
         /\ tasks' = [tasks EXCEPT ![t] = Idle]
    ELSE IF ~i.ai
    THEN /\ error' = handleError(MsgLoad, MsgNotInit)
         /\ isLoadingStores' = FALSE
         /\ ai' = i.ai
         /\ tasks' = [tasks EXCEPT ![t] = Idle]
    ELSE /\ error' = NULL
         /\ isLoadingStores' = TRUE
         /\ ai' = i.ai
         /\ tasks' = [tasks EXCEPT ![t] = Call(task, "listCorpora")]

NewTask(kind) == [Idle EXCEPT !.kind = kind, !.sel = selectedStore]

\* useEffect(() => { if (!initialized) loadStores(); })
MountEffect ==
    /\ UNCHANGED <<ops, returned>>
    /\ ~mounted
    /\ FreeSlots # {}
    /\ mounted' = TRUE
    /\ ~initialized
    /\ loadStores(NewSlot, NewTask("loadStores"))
    /\ UNCHANGED <<stores, selectedStore, documents, queryResult,
                   isLoadingDocuments, isQuerying, processingFile, initialized,
                   apiKey, remote>>

\* the reply of listCorpora resumes loadStores
LoadStoresDone(t) ==
    /\ UNCHANGED <<ops, returned>>
    /\ tasks[t].pc = "listCorpora"
    /\ tasks[t].phase = "resp"
    /\ IF tasks[t].ok
       THEN /\ stores' = ToStores(tasks[t].val)
            /\ initialized' = TRUE
            /\ UNCHANGED error
       ELSE /\ error' = handleError(MsgLoad, ErrMsg(tasks[t]))
            /\ UNCHANGED <<stores, initialized>>
    /\ isLoadingStores' = FALSE
    /\ tasks' = [tasks EXCEPT ![t] = Idle]
    /\ UNCHANGED <<selectedStore, documents, queryResult, isLoadingDocuments,
                   isQuerying, processingFile, ai, apiKey, mounted, remote>>


\* clearError without the re-initialization
clearError_noRetry ==
    /\ UNCHANGED ops
    /\ returned' = "clearError"
    /\ ErrorView
    /\ error' = NULL
    /\ UNCHANGED <<isLoadingStores, ai, tasks>>
    /\ UNCHANGED <<stores, selectedStore, documents, queryResult,
                   isLoadingDocuments, isQuerying, processingFile, initialized,
                   apiKey, mounted, remote>>

\* clearError: the "Try Again" button of the error view
clearError ==
    /\ UNCHANGED ops
    /\ returned' = "clearError"
    /\ ErrorView
    /\ initialized \/ FreeSlots # {}
    /\ IF ~initialized
       THEN loadStores(NewSlot, NewTask("loadStores"))
       ELSE /\ error' = NULL
            /\ UNCHANGED <<isLoadingStores, ai, tasks>>
    /\ UNCHANGED <<stores, selectedStore, documents, queryResult,
                   isLoadingDocuments, isQuerying, processingFile, initialized,
                   apiKey, mounted, remote>>

\* ------------------------------------------------- controls of the views
\* RagStoreList (isLoading = isLoadingStores): create, delete and refresh are
\* disabled while the Stores region is loading
StoreControlsEnabled == MainView /\ ~isLoadingStores
\* RagStoreList onSelect: the list receives no Documents-loading flag
SelectEnabled == MainView
\* DocumentList (isLoading = isLoadingDocuments, processingFile)
DocumentControlsEnabled == MainView /\ ~isLoadingDocuments /\ processingFile = NULL
\* QueryInterface (isLoading = isQuerying)
QueryControlsEnabled == MainView /\ ~isQuerying

\* onRefresh = loadStores
Refresh ==
    /\ StoreControlsEnabled
    /\ FreeSlots # {}
    /\ ops < MaxOps
    /\ ops' = ops + 1
    /\ returned' = returned
    /\ loadStores(NewSlot, NewTask("loadStores"))
    /\ UNCHANGED <<stores, selectedStore, documents, queryResult,
                   isLoadingDocuments, isQuerying, processingFile, initialized,
                   apiKey, mounted, remote>>

\* ----------------------------------------------------------- handleCreateStore
MsgCreate == <<"Failed to create store">>


\* handleCreateStore marking the Documents region busy as well
handleCreateStore_globalFlag(displayName) ==
    /\ StoreControlsEnabled
    /\ FreeSlots # {}
    /\ ops < MaxOps
    /\ ops' = ops + 1
    /\ returned' = returned
    /\ isLoadingStores' = TRUE
    /\ isLoadingDocuments' = TRUE
    /\ tasks' = [tasks EXCEPT ![NewSlot] =
           Call([NewTask("createStore") EXCEPT !.text = displayName],
                "createCorpus")]
    /\ UNCHANGED <<stores, selectedStore, documents, queryResult, error,
                   isQuerying, processingFile, initialized,
                   ai, apiKey, mounted, remote>>

handleCreateStore(displayName) ==
    /\ StoreControlsEnabled
    /\ FreeSlots # {}
    /\ ops < MaxOps
    /\ ops' = ops + 1
    /\ returned' = returned
    /\ IF NotInitialized
       THEN /\ error' = handleError(MsgCreate, MsgNotInit)
            /\ isLoadingStores' = FALSE
            /\ UNCHANGED tasks
       ELSE /\ isLoadingStores' = TRUE
            /\ tasks' = [tasks EXCEPT ![NewSlot] =
                   Call([NewTask("createStore") EXCEPT !.text = displayName],
                        "createCorpus")]
            /\ UNCHANGED error
    /\ UNCHANGED <<stores, selectedStore, documents, queryResult,
                   isLoadingDocuments, isQuerying, processingFile, initialized,
                   ai, apiKey, mounted, remote>>

CreateStoreDone(t) ==
    /\ UNCHANGED <<ops, returned>>
    /\ Awaiting(t, "createStore", "createCorpus")
    /\ IF tasks[t].ok /\ tasks[t].val # <<>>
       THEN loadStores(t, tasks[t])
       ELSE /\ error' = handleError(MsgCreate,
                 IF tasks[t].ok THEN MsgNoName ELSE ErrMsg(tasks[t]))
            /\ isLoadingStores' = FALSE
            /\ tasks' = [tasks EXCEPT ![t] = Idle]
            /\ UNCHANGED ai
    /\ UNCHANGED <<stores, selectedStore, documents, queryResult,
                   isLoadingDocuments, isQuerying, processingFile, initialized,
                   apiKey, mounted, remote>>

\* ----------------------------------------------------------- handleDeleteStore
MsgDeleteStore == <<"Failed to delete store">>

StoreNamesShown == {stores[i].name : i \in 1..Len(stores)}


\* handleDeleteStore without the window.confirm gate
handleDeleteStore_unconfirmed(storeName, confirmed) ==
    /\ StoreControlsEnabled
    /\ FreeSlots # {}
    /\ ops < MaxOps
    /\ ops' = ops + 1
    /\ returned' = IF ~confirmed THEN "handleDeleteStore" ELSE returned
    /\ isLoadingStores' = TRUE
    /\ tasks' = [tasks EXCEPT ![NewSlot] =
           Call([NewTask("deleteStore") EXCEPT !.store = storeName],
                "deleteCorpus")]
    /\ UNCHANGED <<stores, selectedStore, documents, queryResult, error,
                   isLoadingDocuments, isQuerying, processingFile, initialized,
                   ai, apiKey, mounted, remote>>

handleDeleteStore(storeName, confirmed) ==
    /\ StoreControlsEnabled
    /\ FreeSlots # {}
    /\ ops < MaxOps
    /\ ops' = ops + 1
    /\ returned' = IF ~confirmed THEN "handleDeleteStore" ELSE returned
    /\ IF ~confirmed
       THEN UNCHANGED <<error, isLoadingStores, tasks>>
       ELSE IF NotInitialized
       THEN /\ error' = handleError(MsgDeleteStore, MsgNotInit)
            /\ isLoadingStores' = FALSE
            /\ UNCHANGED tasks
       ELSE /\ isLoadingStores' = TRUE
            /\ tasks' = [tasks EXCEPT ![NewSlot] =
                   Call([NewTask("deleteStore") EXCEPT !.store = storeName],
                        "deleteCorpus")]
            /\ UNCHANGED error
    /\ UNCHANGED <<stores, selectedStore, documents, queryResult,
                   isLoadingDocuments, isQuerying, processingFile, initialized,
                   ai, apiKey, mounted, remote>>

\* selectedStore?.name === storeName, on the selectedStore of the closure
WasSelected(task) == task.sel # NULL /\ task.sel[1].name = task.store

DeleteStoreDone(t) ==
    /\ UNCHANGED <<ops, returned>>
    /\ Awaiting(t, "deleteStore", "deleteCorpus")
    /\ IF tasks[t].ok
       THEN /\ IF WasSelected(tasks[t])
               THEN selectedStore' = NULL /\ documents' = <<>>
               ELSE UNCHANGED <<selectedStore, documents>>
            /\ loadStores(t, tasks[t])
       ELSE /\ error' = handleError(MsgDeleteStore, ErrMsg(tasks[t]))
            /\ isLoadingStores' = FALSE
            /\ tasks' = [tasks EXCEPT ![t] = Idle]
            /\ UNCHANGED <<ai, selectedStore, documents>>
    /\ UNCHANGED <<stores, queryResult, isLoadingDocuments, isQuerying,
                   processingFile, initialized, apiKey, mounted, remote>>

\* ----------------------------------------------------------- handleSelectStore
MsgSelect(displayName) == <<"Failed to load documents for ", displayName>>


\* handleSelectStore without the already-selected early return
handleSelectStore_refetches(store) ==
    /\ SelectEnabled
    /\ FreeSlots # {}
    /\ ops < MaxOps
    /\ ops' = ops + 1
    /\ returned' = IF selectedStore # NULL /\ selectedStore[1].name = store.name THEN "handleSelectStore" ELSE returned
    /\ selectedStore' = Some(store)
    /\ documents' = <<>>
    /\ queryResult' = NULL
    /\ isLoadingDocuments' = TRUE
    /\ tasks' = [tasks EXCEPT ![NewSlot] =
          Call([NewTask("selectStore") EXCEPT
                  !.store = store.name, !.text = store.displayName],
               "listDocuments")]
    /\ UNCHANGED <<stores, isLoadingStores, isQuerying, processingFile, error,
                   initialized, ai, apiKey, mounted, remote>>

handleSelectStore(store) ==
    /\ SelectEnabled
    /\ FreeSlots # {}
    /\ ops < MaxOps
    /\ ops' = ops + 1
    /\ returned' = IF selectedStore # NULL /\ selectedStore[1].name = store.name THEN "handleSelectStore" ELSE returned
    /\ IF selectedStore # NULL /\ selectedStore[1].name = store.name
       THEN UNCHANGED <<selectedStore, documents, queryResult,
                        isLoadingDocuments, error, tasks>>
       ELSE /\ selectedStore' = Some(store)
            /\ documents' = <<>>
            /\ queryResult' = NULL
            /\ IF NotInitialized
               THEN /\ error' = handleError(MsgSelect(store.displayName), MsgNotInit)
                    /\ isLoadingDocuments' = FALSE
                    /\ UNCHANGED tasks
               ELSE /\ isLoadingDocuments' = TRUE
                    /\ tasks' = [tasks EXCEPT ![NewSlot] =
                          Call([NewTask("selectStore") EXCEPT
                                  !.store = store.name, !.text = store.displayName],
                               "listDocuments")]
                    /\ UNCHANGED error
    /\ UNCHANGED <<stores, isLoadingStores, isQuerying, processingFile,
                   initialized, ai, apiKey, mounted, remote>>


\* handleSelectStore clearing Documents-loading on success only
SelectStoreDone_noFinally(t) ==
    /\ UNCHANGED <<ops, returned>>
    /\ Awaiting(t, "selectStore", "listDocuments")
    /\ IF tasks[t].ok
       THEN /\ documents' = ToDocuments(tasks[t].val)
            /\ isLoadingDocuments' = FALSE
            /\ UNCHANGED error
       ELSE /\ error' = handleError(MsgSelect(tasks[t].text), ErrMsg(tasks[t]))
            /\ UNCHANGED <<documents, isLoadingDocuments>>
    /\ tasks' = [tasks EXCEPT ![t] = Idle]
    /\ UNCHANGED <<stores, selectedStore, queryResult, isLoadingStores,
                   isQuerying, processingFile, initialized, ai, apiKey,
                   mounted, remote>>

SelectStoreDone(t) ==
    /\ UNCHANGED <<ops, returned>>
    /\ Awaiting(t, "selectStore", "listDocuments")
    /\ IF tasks[t].ok
       THEN documents' = ToDocuments(tasks[t].val) /\ UNCHANGED error
       ELSE /\ error' = handleError(MsgSelect(tasks[t].text), ErrMsg(tasks[t]))
            /\ UNCHANGED documents
    /\ isLoadingDocuments' = FALSE
    /\ tasks' = [tasks EXCEPT ![t] = Idle]
    /\ UNCHANGED <<stores, selectedStore, queryResult, isLoadingStores,
                   isQuerying, processingFile, initialized, ai, apiKey,
                   mounted, remote>>

\* -------------------------------------------------------- handleUploadDocument
MsgUpload(fileName) == <<"Failed to upload ", fileName>>

\* the remote calls uploadToRagStore makes, in order, before it resolves
UploadCalls == <<"filesUpload", "createDocument">>

\* `corpora/${ragStoreName.split('/')[1]}/documents/${uploadedFile.name.split('/')[1]}`
NewDocName(ragStoreName, uploadedFileName) ==
    <<"corpora", ragStoreName[2], "documents", uploadedFileName[2]>>

handleUploadDocument(file, metadata) ==
    /\ DocumentControlsEnabled
    /\ FreeSlots # {}
    /\ ops < MaxOps
    /\ ops' = ops + 1
    /\ returned' = IF selectedStore = NULL THEN "handleUploadDocument" ELSE returned
    /\ nextFile < MaxFiles
    /\ IF selectedStore = NULL
       THEN UNCHANGED <<processingFile, error, tasks>>
       ELSE IF NotInitialized
       THEN /\ error' = handleError(MsgUpload(file), MsgNotInit)
            /\ processingFile' = NULL
            /\ UNCHANGED tasks
       ELSE /\ processingFile' = Some(file)
            /\ tasks' = [tasks EXCEPT ![NewSlot] =
                   Call([NewTask("upload") EXCEPT !.store = selectedStore[1].name,
                           !.text = file, !.meta = metadata],
                        UploadCalls[1])]
            /\ UNCHANGED error
    /\ UNCHANGED <<stores, selectedStore, documents, queryResult,
                   isLoadingStores, isLoadingDocuments, isQuerying,
                   initialized, ai, apiKey, mounted, remote>>

\* catch and finally of handleUploadDocument
UploadFailed(t, errMsg) ==
    /\ error' = handleError(MsgUpload(tasks[t].text), errMsg)
    /\ processingFile' = NULL
    /\ tasks' = [tasks EXCEPT ![t] = Idle]
    /\ UNCHANGED documents

\* ai.files.upload replied: the document is created from the file resource
UploadFileStored(t) ==
    /\ UNCHANGED <<ops, returned>>
    /\ Awaiting(t, "upload", "filesUpload")
    /\ IF ~tasks[t].ok
       THEN UploadFailed(t, ErrMsg(tasks[t]))
       ELSE IF tasks[t].val = <<>> \/ tasks[t].val[1].uri = ""
       THEN UploadFailed(t, MsgNoUri)
       ELSE /\ tasks' = [tasks EXCEPT ![t] =
                   Call([tasks[t] EXCEPT !.doc =
                            NewDocName(tasks[t].store, tasks[t].val[1].name)],
                        UploadCalls[2])]
            /\ UNCHANGED <<error, processingFile, documents>>
    /\ UNCHANGED <<stores, selectedStore, queryResult, isLoadingStores,
                   isLoadingDocuments, isQuerying, initialized, ai, apiKey,
                   mounted, remote>>

\* ai.rag.createDocument replied: uploadToRagStore resolves, the list is fetched
UploadResolved(t) ==
    /\ UNCHANGED <<ops, returned>>
    /\ Awaiting(t, "upload", "createDocument")
    /\ IF ~tasks[t].ok
       THEN UploadFailed(t, ErrMsg(tasks[t]))
       ELSE /\ tasks' = [tasks EXCEPT ![t] = Call(tasks[t], "listDocuments")]
            /\ UNCHANGED <<error, processingFile, documents>>
    /\ UNCHANGED <<stores, selectedStore, queryResult, isLoadingStores,
                   isLoadingDocuments, isQuerying, initialized, ai, apiKey,
                   mounted, remote>>


\* handleUploadDocument appending an entry built from the file to the list
UploadDone_appends(t) ==
    /\ UNCHANGED <<ops, returned>>
    /\ Awaiting(t, "upload", "listDocuments")
    /\ IF ~tasks[t].ok
       THEN UploadFailed(t, ErrMsg(tasks[t]))
       ELSE /\ documents' = Append(documents,
                   [name |-> tasks[t].doc, displayName |-> tasks[t].text,
                    customMetadata |-> tasks[t].meta])
            /\ processingFile' = NULL
            /\ tasks' = [tasks EXCEPT ![t] = Idle]
            /\ UNCHANGED error
    /\ UNCHANGED <<stores, selectedStore, queryResult, isLoadingStores,
                   isLoadingDocuments, isQuerying, initialized, ai, apiKey,
                   mounted, remote>>

UploadDone(t) ==
    /\ UNCHANGED <<ops, returned>>
    /\ Awaiting(t, "upload", "listDocuments")
    /\ IF ~tasks[t].ok
       THEN UploadFailed(t, ErrMsg(tasks[t]))
       ELSE /\ documents' = ToDocuments(tasks[t].val)
            /\ processingFile' = NULL
            /\ tasks' = [tasks EXCEPT ![t] = Idle]
            /\ UNCHANGED error
    /\ UNCHANGED <<stores, selectedStore, queryResult, isLoadingStores,
                   isLoadingDocuments, isQuerying, initialized, ai, apiKey,
                   mounted, remote>>

\* -------------------------------------------------------- handleDeleteDocument
MsgDeleteDoc(docDisplayName) == <<"Failed to delete ", docDisplayName>>

\* documents.find(d => d.name === docName)?.displayName || 'document'
DocDisplayName(docName) ==
    LET found == {i \in 1..Len(documents) : documents[i].name = docName} IN
    IF found = {} THEN "document"
    ELSE LET first == CHOOSE i \in found : \A j \in found : i <= j IN
         FirstNonEmpty(documents[first].displayName, "document", "document")

DocNamesShown == {documents[i].name : i \in 1..Len(documents)}

handleDeleteDocument(docName) ==
    /\ DocumentControlsEnabled
    /\ FreeSlots # {}
    /\ ops < MaxOps
    /\ ops' = ops + 1
    /\ returned' = IF selectedStore = NULL THEN "handleDeleteDocument" ELSE returned
    /\ IF selectedStore = NULL
       THEN UNCHANGED <<processingFile, error, tasks>>
       ELSE IF NotInitialized
       THEN /\ error' = handleError(MsgDeleteDoc(DocDisplayName(docName)), MsgNotInit)
            /\ processingFile' = NULL
            /\ UNCHANGED tasks
       ELSE /\ processingFile' = Some(DocDisplayName(docName))
            /\ tasks' = [tasks EXCEPT ![NewSlot] =
                   Call([NewTask("deleteDocument") EXCEPT
                           !.store = selectedStore[1].name,
                           !.doc = docName, !.text = DocDisplayName(docName)],
                        "deleteDocument")]
            /\ UNCHANGED error
    /\ UNCHANGED <<stores, selectedStore, documents, queryResult,
                   isLoadingStores, isLoadingDocuments, isQuerying,
                   initialized, ai, apiKey, mounted, remote>>


\* handleDeleteDocument with the cleanup at the end of the try block only
DeleteDocumentFailed_noFinally(t, errMsg) ==
    /\ error' = handleError(MsgDeleteDoc(tasks[t].text), errMsg)
    /\ tasks' = [tasks EXCEPT ![t] = Idle]
    /\ UNCHANGED <<documents, processingFile>>

\* catch and finally of handleDeleteDocument
DeleteDocumentFailed(t, errMsg) ==
    /\ error' = handleError(MsgDeleteDoc(tasks[t].text), errMsg)
    /\ processingFile' = NULL
    /\ tasks' = [tasks EXCEPT ![t] = Idle]
    /\ UNCHANGED documents

DeleteDocumentDeleted(t) ==
    /\ UNCHANGED <<ops, returned>>
    /\ Awaiting(t, "deleteDocument", "deleteDocument")
    /\ IF ~tasks[t].ok
       THEN DeleteDocumentFailed(t, ErrMsg(tasks[t]))
       ELSE /\ tasks' = [tasks EXCEPT ![t] = Call(tasks[t], "listDocuments")]
            /\ UNCHANGED <<error, processingFile, documents>>
    /\ UNCHANGED <<stores, selectedStore, queryResult, isLoadingStores,
                   isLoadingDocuments, isQuerying, initialized, ai, apiKey,
                   mounted, remote>>

DeleteDocumentDone(t) ==
    /\ UNCHANGED <<ops, returned>>
    /\ Awaiting(t, "deleteDocument", "listDocuments")
    /\ IF ~tasks[t].ok
       THEN DeleteDocumentFailed(t, ErrMsg(tasks[t]))
       ELSE /\ documents' = ToDocuments(tasks[t].val)
            /\ processingFile' = NULL
            /\ tasks' = [tasks EXCEPT ![t] = Idle]
            /\ UNCHANGED error
    /\ UNCHANGED <<stores, selectedStore, queryResult, isLoadingStores,
                   isLoadingDocuments, isQuerying, initialized, ai, apiKey,
                   mounted, remote>>

\* ------------------------------------------------------------------ handleQuery
MsgQuery == <<"Failed to execute query">>


\* handleQuery without setQueryResult(null)
handleQuery_keepsResult(query) ==
    /\ QueryControlsEnabled
    /\ FreeSlots # {}
    /\ ops < MaxOps
    /\ ops' = ops + 1
    /\ returned' = IF selectedStore = NULL THEN "handleQuery" ELSE returned
    /\ IF selectedStore = NULL
       THEN UNCHANGED <<isQuerying, error, tasks>>
       ELSE IF NotInitialized
       THEN /\ error' = handleError(MsgQuery, MsgNotInit)
            /\ isQuerying' = FALSE
            /\ UNCHANGED tasks
       ELSE /\ isQuerying' = TRUE
            /\ tasks' = [tasks EXCEPT ![NewSlot] =
                  Call([NewTask("query") EXCEPT
                          !.store = selectedStore[1].name, !.text = query],
                       "generateContent")]
            /\ UNCHANGED error
    /\ UNCHANGED <<stores, selectedStore, documents, queryResult, isLoadingStores,
                   isLoadingDocuments, processingFile, initialized, ai, apiKey,
                   mounted, remote>>

handleQuery(query) ==
    /\ QueryControlsEnabled
    /\ FreeSlots # {}
    /\ ops < MaxOps
    /\ ops' = ops + 1
    /\ returned' = IF selectedStore = NULL THEN "handleQuery" ELSE returned
    /\ IF selectedStore = NULL
       THEN UNCHANGED <<isQuerying, queryResult, error, tasks>>
       ELSE /\ queryResult' = NULL
            /\ IF NotInitialized
               THEN /\ error' = handleError(MsgQuery, MsgNotInit)
                    /\ isQuerying' = FALSE
                    /\ UNCHANGED tasks
               ELSE /\ isQuerying' = TRUE
                    /\ tasks' = [tasks EXCEPT ![NewSlot] =
                          Call([NewTask("query") EXCEPT
                                  !.store = selectedStore[1].name, !.text = query],
                               "generateContent")]
                    /\ UNCHANGED error
    /\ UNCHANGED <<stores, selectedStore, documents, isLoadingStores,
                   isLoadingDocuments, processingFile, initialized, ai, apiKey,
                   mounted, remote>>

QueryDone(t) ==
    /\ UNCHANGED <<ops, returned>>
    /\ Awaiting(t, "query", "generateContent")
    /\ IF tasks[t].ok
       THEN queryResult' = Some(tasks[t].val[1]) /\ UNCHANGED error
       ELSE /\ error' = handleError(MsgQuery, ErrMsg(tasks[t]))
            /\ UNCHANGED queryResult
    /\ isQuerying' = FALSE
    /\ tasks' = [tasks EXCEPT ![t] = Idle]
    /\ UNCHANGED <<stores, selectedStore, documents, isLoadingStores,
                   isLoadingDocuments, processingFile, initialized, ai, apiKey,
                   mounted, remote>>

\* ------------------------------------------------------------ the service
MsgNotFound == "NOT_FOUND"
MsgInvalid == "INVALID_ARGUMENT"
MsgExists == "ALREADY_EXISTS"
MsgQuota == "RESOURCE_EXHAUSTED"

CorpusNames == {corpora[i].name : i \in 1..Len(corpora)}
RemoteDocNames == {rdocs[i].name : i \in 1..Len(rdocs)}
DocsOf(parent) == SelectSeq(rdocs, LAMBDA d : Parent(d.name) = parent)
FileSeg(n) == "f" \o ToString(n)

Reply(t, ok, val) ==
    tasks' = [tasks EXCEPT ![t] = [tasks[t] EXCEPT !.phase = "resp", !.ok = ok, !.val = val]]

\* a list reply: the first page of the listing, and the nextPageToken ("" on
\* the last page)
FirstPage(list) == SubSeq(list, 1, IF Len(list) > PageSize THEN PageSize ELSE Len(list))
ReplyPage(t, list) ==
    tasks' = [tasks EXCEPT ![t] = [tasks[t] EXCEPT
                 !.phase = "resp", !.ok = TRUE, !.val = FirstPage(list),
                 !.next = IF Len(list) > PageSize THEN "page2" ELSE ""]]

Requested(t, pc) == tasks[t].phase = "req" /\ tasks[t].pc = pc

\* a transport or API failure: the request has no effect and is rejected
RemoteReject(t) ==
    /\ UNCHANGED <<ops, returned>>
    /\ tasks[t].phase = "req"
    /\ Reply(t, FALSE, <<MsgService>>)
    /\ UNCHANGED <<react, ai, apiKey, mounted, remote>>

RemoteListCorpora(t) ==
    /\ UNCHANGED <<ops, returned>>
    /\ Requested(t, "listCorpora")
    /\ ReplyPage(t, corpora)
    /\ UNCHANGED <<react, ai, apiKey, mounted, remote>>

\* the service assigns the resource name; a reply may come without it
RemoteCreateCorpus(t) ==
    /\ UNCHANGED <<ops, returned>>
    /\ Requested(t, "createCorpus")
    /\ LET unused == {seg \in StoreSegs : CorpusName(seg) \notin CorpusNames} IN
       IF tasks[t].text = "" THEN Reply(t, FALSE, <<MsgInvalid>>) /\ UNCHANGED corpora
       ELSE IF unused = {} THEN Reply(t, FALSE, <<MsgQuota>>) /\ UNCHANGED corpora
       ELSE \E seg \in unused, named \in BOOLEAN :
              /\ corpora' = Append(corpora, [name |-> CorpusName(seg),
                                             displayName |-> tasks[t].text])
              /\ Reply(t, TRUE, IF named THEN CorpusName(seg) ELSE <<>>)
    /\ UNCHANGED <<react, ai, apiKey, mounted, rdocs, nextFile>>

\* force: true, the documents of the corpus go with it
RemoteDeleteCorpus(t) ==
    /\ UNCHANGED <<ops, returned>>
    /\ Requested(t, "deleteCorpus")
    /\ IF tasks[t].store \notin CorpusNames
       THEN Reply(t, FALSE, <<MsgNotFound>>) /\ UNCHANGED <<corpora, rdocs>>
       ELSE /\ corpora' = SelectSeq(corpora, LAMBDA c : c.name # tasks[t].store)
            /\ rdocs' = SelectSeq(rdocs, LAMBDA d : Parent(d.name) # tasks[t].store)
            /\ Reply(t, TRUE, <<>>)
    /\ UNCHANGED <<react, ai, apiKey, mounted, nextFile>>

RemoteListDocuments(t) ==
    /\ UNCHANGED <<ops, returned>>
    /\ Requested(t, "listDocuments")
    /\ IF tasks[t].store \notin CorpusNames
       THEN Reply(t, FALSE, <<MsgNotFound>>)
       ELSE ReplyPage(t, DocsOf(tasks[t].store))
    /\ UNCHANGED <<react, ai, apiKey, mounted, remote>>

\* the file resource gets a service-assigned name; a reply may lack the uri
RemoteFilesUpload(t) ==
    /\ UNCHANGED <<ops, returned>>
    /\ Requested(t, "filesUpload")
    /\ IF nextFile >= MaxFiles
       THEN Reply(t, FALSE, <<MsgQuota>>) /\ UNCHANGED nextFile
       ELSE /\ nextFile' = nextFile + 1
            /\ \E uri \in {"", "uri"} :
                  Reply(t, TRUE, <<[name |-> <<"files", FileSeg(nextFile')>>, uri |-> uri]>>)
    /\ UNCHANGED <<react, ai, apiKey, mounted, corpora, rdocs>>

RemoteCreateDocument(t) ==
    /\ UNCHANGED <<ops, returned>>
    /\ Requested(t, "createDocument")
    /\ IF tasks[t].store \notin CorpusNames
       THEN Reply(t, FALSE, <<MsgNotFound>>) /\ UNCHANGED rdocs
       ELSE IF tasks[t].doc \in RemoteDocNames
       THEN Reply(t, FALSE, <<MsgExists>>) /\ UNCHANGED rdocs
       ELSE /\ rdocs' = Append(rdocs, [name |-> tasks[t].doc,
                                       displayName |-> tasks[t].text,
                                       customMetadata |-> tasks[t].meta])
            /\ Reply(t, TRUE, <<>>)
    /\ UNCHANGED <<react, ai, apiKey, mounted, corpora, nextFile>>

RemoteDeleteDocument(t) ==
    /\ UNCHANGED <<ops, returned>>
    /\ Requested(t, "deleteDocument")
    /\ IF tasks[t].doc \notin RemoteDocNames
       THEN Reply(t, FALSE, <<MsgNotFound>>) /\ UNCHANGED rdocs
       ELSE /\ rdocs' = SelectSeq(rdocs, LAMBDA d : d.name # tasks[t].doc)
            /\ Reply(t, TRUE, <<>>)
    /\ UNCHANGED <<react, ai, apiKey, mounted, corpora, nextFile>>

\* the answer is grounded in the named corpus: text and chunks come from it
RemoteGenerateContent(t) ==
    /\ UNCHANGED <<ops, returned>>
    /\ Requested(t, "generateContent")
    /\ IF tasks[t].store \notin CorpusNames
       THEN Reply(t, FALSE, <<MsgNotFound>>)
       ELSE Reply(t, TRUE,
              <<[text |-> tasks[t].store \o <<tasks[t].text>>,
                 groundingChunks |->
                    [i \in 1..Len(DocsOf(tasks[t].store)) |->
                        [retrievedContext |-> [text |-> DocsOf(tasks[t].store)[i].name]]]]>>)
    /\ UNCHANGED <<react, ai, apiKey, mounted, remote>>

\* --------------------------------------------------------------- behaviour
Next ==
    \/ MountEffect
    \/ clearError
    \/ Refresh
    \/ \E displayName \in DisplayNames : handleCreateStore(displayName)
    \/ \E storeName \in StoreNamesShown, confirmed \in BOOLEAN :
          handleDeleteStore(storeName, confirmed)
    \/ \E i \in 1..Len(stores) : handleSelectStore(stores[i])
    \/ \E file \in FileNames, metadata \in Metadatas : handleUploadDocument(file, metadata)
    \/ \E docName \in DocNamesShown : handleDeleteDocument(docName)
    \/ \E query \in Queries : handleQuery(query)
    \/ \E t \in Slots :
          \/ LoadStoresDone(t)
          \/ CreateStoreDone(t)
          \/ DeleteStoreDone(t)
          \/ SelectStoreDone(t)
          \/ UploadFileStored(t)
          \/ UploadResolved(t)
          \/ UploadDone(t)
          \/ DeleteDocumentDeleted(t)
          \/ DeleteDocumentDone(t)
          \/ QueryDone(t)
          \/ RemoteReject(t)
          \/ RemoteListCorpora(t)
          \/ RemoteCreateCorpus(t)
          \/ RemoteDeleteCorpus(t)
          \/ RemoteListDocuments(t)
          \/ RemoteFilesUpload(t)
          \/ RemoteCreateDocument(t)
          \/ RemoteDeleteDocument(t)
          \/ RemoteGenerateContent(t)

Spec == Init /\ [][Next]_vars

\* ------------------------------------------------- the service client alone
\* The exported operations of geminiService called directly, in any order and
\* possibly before initialize; the first request each one sends.
FirstCall ==
    [listRagStores |-> "listCorpora", listDocuments |-> "listDocuments",
     createRagStore |-> "createCorpus", uploadToRagStore |-> UploadCalls[1],
     deleteDocument |-> "deleteDocument", fileSearch |-> "generateContent",
     deleteRagStore |-> "deleteCorpus"]
ClientOperations == DOMAIN FirstCall
ClientStores == {CorpusName("a"), CorpusName("c")}
ClientDocs == {CorpusName("a") \o <<"documents", "x">>}

\* the operation up to its first await: the guard, then the first request
StartOperation(task, pc) ==
    IF NotInitialized
    THEN [task EXCEPT !.phase = "resp", !.ok = FALSE, !.val = <<MsgNotInit>>]
    ELSE Call(task, pc)

ClientInitialize ==
    /\ ai' = initialize.ai
    /\ UNCHANGED <<react, apiKey, mounted, remote, tasks, ops, returned>>

ClientCall(op, store, doc) ==
    /\ FreeSlots # {}
    /\ ops < MaxOps
    /\ ops' = ops + 1
    /\ tasks' = [tasks EXCEPT ![NewSlot] =
          StartOperation([Idle EXCEPT !.kind = op, !.store = store, !.doc = doc,
                             !.text = CHOOSE x \in DisplayNames : TRUE,
                             !.meta = CHOOSE m \in Metadatas : TRUE],
                         FirstCall[op])]
    /\ UNCHANGED <<react, ai, apiKey, mounted, remote, returned>>

\* uploadToRagStore after ai.files.upload resolved with a usable file
ClientUploadContinues(t) ==
    /\ tasks[t].kind = "uploadToRagStore"
    /\ tasks[t].pc = UploadCalls[1]
    /\ tasks[t].phase = "resp"
    /\ tasks[t].ok /\ tasks[t].val # <<>> /\ tasks[t].val[1].uri # ""

ClientUploadStored(t) ==
    /\ ClientUploadContinues(t)
    /\ tasks' = [tasks EXCEPT ![t] =
          Call([tasks[t] EXCEPT !.doc = NewDocName(tasks[t].store, tasks[t].val[1].name)],
               UploadCalls[2])]
    /\ UNCHANGED <<react, ai, apiKey, mounted, remote, ops, returned>>

\* the promise of the operation settles
ClientSettled(t) ==
    /\ tasks[t].kind \in ClientOperations
    /\ tasks[t].phase = "resp"
    /\ ~ClientUploadContinues(t)
    /\ tasks' = [tasks EXCEPT ![t] = Idle]
    /\ UNCHANGED <<react, ai, apiKey, mounted, remote, ops, returned>>

ClientNext ==
    \/ ClientInitialize
    \/ \E op \in ClientOperations, store \in ClientStores, doc \in ClientDocs :
          ClientCall(op, store, doc)
    \/ \E t \in Slots :
          \/ ClientUploadStored(t)
          \/ ClientSettled(t)
          \/ RemoteReject(t)
          \/ RemoteListCorpora(t)
          \/ RemoteCreateCorpus(t)
          \/ RemoteDeleteCorpus(t)
          \/ RemoteListDocuments(t)
          \/ RemoteFilesUpload(t)
          \/ RemoteCreateDocument(t)
          \/ RemoteDeleteDocument(t)
          \/ RemoteGenerateContent(t)

ClientSpec == Init /\ [][ClientNext]_vars

\* =============================================================== properties
NamesOf(seq) == [i \in 1..Len(seq) |-> seq[i].name]
InFlight(t, kind) == tasks[t].kind = kind
\* the step in which the reply resumes task t and the handler returns
Returns(t) == tasks[t].phase = "resp" /\ tasks'[t].kind = "idle"
Issued(task, pc) == \E i \in 1..Len(task.calls) : task.calls[i] = pc
Mentions(err, part) == err # NULL /\ \E i \in 1..Len(err[1]) : err[1][i] = part
\* the corpus a query result was grounded in
GroundedIn(result) == SubSeq(result.text, 1, 2)

\* C1: selectStore(A) then selectStore(B), A # B: whatever order the two
\* listDocuments replies arrive in, no reply of a selectStore puts documents
\* of another store than the selected one into `documents`.
C1_NoDocumentsOfPreviousStore ==
    [][\A t \in Slots :
         (InFlight(t, "selectStore") /\ Returns(t) /\ selectedStore' # NULL)
            => \A i \in 1..Len(documents') :
                  Parent(documents'[i].name) = selectedStore'[1].name]_vars

\* C2: a non-null queryResult was produced by a query against the store that
\* is selected now.
C2_QueryResultOfSelectedStore ==
    queryResult # NULL =>
        /\ selectedStore # NULL
        /\ GroundedIn(queryResult[1]) = selectedStore[1].name

\* C3: selectedStore = null implies documents = [].
C3_NoSelectionNoDocuments ==
    selectedStore = NULL => documents = <<>>

\* C4: when a confirmed deleteStore(id) succeeds while the store with that id
\* is the selected store, selectedStore becomes null and documents [] in the
\* step that starts the reload, before the refreshed list is applied to stores.
C4_DeleteSelectedClearsSelection ==
    [][\A t \in Slots :
         ( /\ Awaiting(t, "deleteStore", "deleteCorpus")
           /\ tasks[t].ok
           /\ tasks'[t] # tasks[t]
           /\ selectedStore # NULL
           /\ selectedStore[1].name = tasks[t].store )
            => (selectedStore' = NULL /\ documents' = <<>> /\ stores' = stores)]_vars

\* the status checks of the long-running operation an upload has made
StatusChecks(task) ==
    Cardinality({i \in 1..Len(task.calls) : task.calls[i] = "operationsGet"})

\* C5: uploadToRagStore resolves only after a poll reported done = true: with
\* N polls reporting done = false it has made N + 1 status checks, so at least
\* one, when it resolves (the handler then fetches the list).
C5_UploadResolvesAfterPolling ==
    \A t \in Slots :
        (InFlight(t, "upload") /\ Issued(tasks[t], "listDocuments"))
            => StatusChecks(tasks[t]) >= 1

\* C6: queryResult is null in every state between the invocation of query and
\* the arrival of that query's response at the handler.
C6_ResultClearedWhileQuerying ==
    \A t \in Slots : InFlight(t, "query") => queryResult = NULL

C6_Witness ==
    \E t \in Slots : /\ Awaiting(t, "query", "generateContent")
                     /\ tasks[t].ok
                     /\ queryResult = NULL
                     /\ ops = MaxOps

\* C7: with API_KEY absent, once the session initialization has run:
\* initialized = false, the error names API_KEY, Stores-loading is cleared,
\* stores is as constructed and no listCorpora request was sent.
C7_NoCredential ==
    (~apiKey /\ mounted) =>
        /\ ~initialized
        /\ Mentions(error, MsgApiKey)
        /\ ~isLoadingStores
        /\ stores = <<>>
        /\ \A t \in Slots : tasks[t] = Idle

C7_Witness ==
    ~apiKey /\ mounted /\ error = handleError(MsgLoad, MsgApiKey) /\ ~initialized

\* C8: when loadStores succeeds, stores is the list the service returned,
\* initialized = true and Stores-loading is cleared; when it was the session
\* initialization, no error is set.
C8_InitializeSucceeds ==
    [][\A t \in Slots :
         (tasks[t].pc = "listCorpora" /\ Returns(t) /\ tasks[t].ok)
            => /\ NamesOf(stores') = NamesOf(tasks[t].val)
               /\ initialized'
               /\ ~isLoadingStores'
               /\ (~initialized => error' = NULL)]_vars

C8_Witness ==
    /\ initialized /\ stores = <<>> /\ error = NULL /\ ~isLoadingStores
    /\ corpora = <<>> /\ ops = 0 /\ \A t \in Slots : tasks[t] = Idle

\* C9: every uploadDocument and deleteDocument ends with processingTarget
\* null, on success and on failure; a failed deleteDocument also sets the error.
C9_ProcessingTargetCleared ==
    [][\A t \in Slots :
         ((InFlight(t, "upload") \/ InFlight(t, "deleteDocument")) /\ Returns(t))
            => /\ processingFile' = NULL
               /\ (InFlight(t, "deleteDocument") /\ ~tasks[t].ok) => error' # NULL]_vars

C9_Witness ==
    /\ processingFile = NULL
    /\ Mentions(error, "Failed to delete ")
    /\ Mentions(error, MsgNotFound)

\* C10 as stated: an upload that ends, on success and on failure alike, has
\* issued listDocuments.
C10_RefreshOnEveryCompletion ==
    [][\A t \in Slots :
         (InFlight(t, "upload") /\ Returns(t)) => Issued(tasks[t], "listDocuments")]_vars

\* C10 amended: once uploadToRagStore has resolved the handler issues
\* listDocuments; a step of an upload either leaves documents alone or, on a
\* successful listing, replaces it with the reply; an upload that ends on a
\* failure leaves documents alone.
C10_RefreshOnSuccessOnly ==
    [][\A t \in Slots :
         (InFlight(t, "upload") /\ tasks[t].phase = "resp" /\ tasks'[t] # tasks[t])
            => /\ (tasks[t].pc = "createDocument" /\ tasks[t].ok)
                     => (tasks'[t].pc = "listDocuments" /\ tasks'[t].phase = "req")
               /\ \/ documents' = documents
                  \/ /\ tasks[t].pc = "listDocuments" /\ tasks[t].ok
                     /\ NamesOf(documents') = NamesOf(tasks[t].val)
               /\ ~tasks[t].ok => (documents' = documents /\ tasks'[t].kind = "idle")]_vars

C10_Witness ==
    /\ \E i \in 1..Len(documents) : documents[i].displayName = "f.txt"
    /\ processingFile = NULL
    /\ \A t \in Slots : ~InFlight(t, "upload")

AllIdle == \A t \in Slots : tasks[t] = Idle
\* the step in which the reply resumes task t
Resumes(t) == tasks[t].phase = "resp" /\ tasks'[t] # tasks[t]
\* the reply that resumes task t makes the handler's try block throw
Failed(task) == ~task.ok \/ (task.pc = "createCorpus" /\ task.val = <<>>)

StoresKinds == {"loadStores", "createStore", "deleteStore"}
DocumentsKinds == {"selectStore", "upload", "deleteDocument"}
QueryKinds == {"query"}

\* C11: for initializeSession/refresh, createStore, deleteStore, selectStore
\* and query: a failed remote call sets the error in the step that receives
\* it, and the step in which the operation returns leaves the loading flag of
\* its region false.
C11_ErrorSetAndFlagCleared ==
    [][\A t \in Slots :
         /\ (tasks[t].kind \in StoresKinds \cup {"selectStore", "query"}
                /\ Resumes(t) /\ Failed(tasks[t]))
               => error' # NULL
         /\ (tasks[t].kind \in StoresKinds /\ Returns(t)) => ~isLoadingStores'
         /\ (InFlight(t, "selectStore") /\ Returns(t)) => ~isLoadingDocuments'
         /\ (InFlight(t, "query") /\ Returns(t)) => ~isQuerying']_vars

C11_Witness ==
    /\ Mentions(error, "Failed to load documents for ")
    /\ ~isLoadingDocuments
    /\ AllIdle

StartsListStores ==
    \E t \in Slots : /\ tasks[t].kind = "idle"
                     /\ tasks'[t].pc = "listCorpora"
                     /\ tasks'[t].phase = "req"

\* C12 as stated: clearError always leaves the error null, starts a listStores
\* attempt exactly when the session never initialized, and no remote call
\* otherwise.
C12_ClearErrorAlwaysClears ==
    [][clearError =>
          /\ error' = NULL
          /\ ~initialized => StartsListStores
          /\ initialized => tasks' = tasks]_vars

\* C12 amended: clearError leaves the error null and, when the session never
\* initialized, starts a listStores attempt, unless the credential is absent:
\* then the re-initialization fails in the same step, the error is set again
\* and no request is sent.  With initialized = true it starts no remote call.
C12_ClearErrorRetries ==
    [][clearError =>
          /\ initialized => (error' = NULL /\ tasks' = tasks)
          /\ (~initialized /\ apiKey) => (error' = NULL /\ StartsListStores)
          /\ (~initialized /\ ~apiKey) =>
                (Mentions(error', MsgApiKey) /\ tasks' = tasks)]_vars

\* a session whose first initialization failed is initialized after a dismissal
C12_Witness ==
    returned = "clearError" /\ initialized /\ ops = 0 /\ error = NULL

InRegion(kinds) == {t \in Slots : tasks[t].kind \in kinds}

\* C13: at most one operation per region (Stores, Documents, Query) is in
\* flight at any time.
C13_OnePendingPerRegion ==
    /\ Cardinality(InRegion(StoresKinds)) <= 1
    /\ Cardinality(InRegion(DocumentsKinds)) <= 1
    /\ Cardinality(InRegion(QueryKinds)) <= 1

\* C14: selectStore(store) with store already selected sends no request and
\* leaves selectedStore, documents, queryResult, the loading flags and the
\* error unchanged.
C14_SelectSameIsNoOp ==
    [][\A i \in 1..Len(stores) :
         (handleSelectStore(stores[i]) /\ selectedStore # NULL
             /\ selectedStore[1].name = stores[i].name)
            => UNCHANGED <<react, ai, remote, tasks>>]_vars

C14_Witness ==
    returned = "handleSelectStore" /\ selectedStore # NULL /\ documents # <<>>

\* C15: a declined deleteStore makes no remote call and changes no part of the
\* session state; a delete request is only ever sent by a confirmed one.
C15_DeclinedDeleteIsNoOp ==
    [][/\ \A n \in StoreNamesShown :
            handleDeleteStore(n, FALSE) => UNCHANGED <<react, ai, remote, tasks>>
       /\ \A t \in Slots :
            (tasks[t].kind = "idle" /\ tasks'[t].kind = "deleteStore")
               => \E n \in StoreNamesShown : handleDeleteStore(n, TRUE)]_vars

C15_Witness ==
    returned = "handleDeleteStore" /\ AllIdle /\ ~isLoadingStores /\ stores # <<>>

\* C16: after createStore(name) succeeded (create and reload), stores is the
\* list returned by the listStores issued after the create and holds a store
\* whose displayName is name; stores is only ever assigned from a listStores
\* reply.
C16_CreateThenReload ==
    [][/\ \A t \in Slots :
            (InFlight(t, "createStore") /\ tasks[t].pc = "listCorpora"
                /\ Returns(t) /\ tasks[t].ok)
               => /\ tasks[t].calls = <<"createCorpus", "listCorpora">>
                  /\ NamesOf(stores') = NamesOf(tasks[t].val)
                  /\ \E i \in 1..Len(stores') : stores'[i].displayName = tasks[t].text
       /\ \A t \in Slots :
            (InFlight(t, "createStore") /\ tasks[t].pc = "createCorpus"
                /\ Resumes(t) /\ Failed(tasks[t]))
               => stores' = stores
       /\ stores' # stores =>
            \E t \in Slots : /\ tasks[t].pc = "listCorpora" /\ Returns(t) /\ tasks[t].ok
                             /\ NamesOf(stores') = NamesOf(tasks[t].val)]_vars

\* the loading flags an operation of kind k does not own
FlagsNotOf(k) ==
    <<IF k \in StoresKinds THEN FALSE ELSE isLoadingStores,
      IF k = "selectStore" THEN FALSE ELSE isLoadingDocuments,
      IF k \in {"upload", "deleteDocument"} THEN NULL ELSE processingFile,
      IF k = "query" THEN FALSE ELSE isQuerying>>

\* C17: a step of an operation changes no loading flag but its own: Stores
\* operations isLoadingStores, selectStore isLoadingDocuments, upload and
\* deleteDocument processingFile, query isQuerying.
C17_FlagsPerRegion ==
    [][\A t \in Slots : \A k \in StoresKinds \cup DocumentsKinds \cup QueryKinds :
         (tasks'[t] # tasks[t] /\ (tasks[t].kind = k \/ tasks'[t].kind = k))
            => FlagsNotOf(k)' = FlagsNotOf(k)]_vars

C17_Witness ==
    /\ \E t \in Slots : InFlight(t, "createStore")
    /\ \E t \in Slots : InFlight(t, "upload")
    /\ isLoadingStores /\ processingFile # NULL
    /\ ~isLoadingDocuments /\ ~isQuerying

\* C18: the list listRagStores returns is the whole listing: it returns only
\* when the page it got was the last one.
C18_ListStoresDrained ==
    [][\A t \in Slots :
         (tasks[t].pc = "listCorpora" /\ Returns(t) /\ tasks[t].ok)
            => tasks[t].next = ""]_vars

\* C19: a client operation other than initialize that is called while the
\* client is not initialized is rejected with the not-initialized error and
\* has sent no request: the service is untouched.
C19_RejectedBeforeInitialize ==
    [][\A t \in Slots :
         (tasks[t].kind = "idle" /\ tasks'[t].kind \in ClientOperations /\ ~ai)
            => /\ tasks'[t].phase = "resp"
               /\ ~tasks'[t].ok
               /\ tasks'[t].val = <<MsgNotInit>>
               /\ tasks'[t].calls = <<>>
               /\ remote' = remote]_vars

C19_Witness ==
    /\ ~ai
    /\ \E t \in Slots : /\ tasks[t].kind = "uploadToRagStore"
                        /\ tasks[t].phase = "resp"
                        /\ tasks[t].val = <<MsgNotInit>>
                        /\ tasks[t].calls = <<>>
    /\ \E t \in Slots : /\ tasks[t].kind = "deleteRagStore"
                        /\ tasks[t].val = <<MsgNotInit>>

\* C20: the list refresh at the end of uploadDocument or deleteDocument writes
\* documents only with the listing of the store selected at that moment.
C20_RefreshOfCurrentStore ==
    [][\A t \in Slots :
         ((InFlight(t, "upload") \/ InFlight(t, "deleteDocument"))
              /\ Returns(t) /\ documents' # documents)
            => (selectedStore # NULL /\ tasks[t].store = selectedStore[1].name)]_vars

\* C21: when the store-list reload of a successful deleteStore(id) is applied,
\* selectedStore is null or names a store of the new stores list, and it is
\* not the deleted store.
C21_SelectionSurvivesDelete ==
    [][\A t \in Slots :
         (InFlight(t, "deleteStore") /\ tasks[t].pc = "listCorpora"
             /\ Returns(t) /\ tasks[t].ok)
            => \/ selectedStore' = NULL
               \/ /\ selectedStore'[1].name # tasks[t].store
                  /\ \E i \in 1..Len(stores') :
                        stores'[i].name = selectedStore'[1].name]_vars

\* C22: a non-null error becomes null only in a clearError step.
C22_ErrorStaysUntilDismissed ==
    [][(error # NULL /\ error' = NULL) => clearError]_vars

====
